---- MODULE Spec2Model ----
(***************************************************************************)
(* SentinelTrade: the resilient cache facade (RedisService), the price    *)
(* poller / alert matcher (CryptoService) and the webhook dispatcher      *)
(* (WebhookService), as state machines.                                   *)
(*                                                                         *)
(* Strings that the code builds and takes apart (cache keys) are          *)
(* sequences of tokens: a type name, ":", the decimal digits of a user    *)
(* id one by one, a symbol.  startsWith, the KEYS glob and split(':')     *)
(* are computed on these sequences.                                        *)
(***************************************************************************)
EXTENDS Integers, Sequences, FiniteSets, TLC

VARIABLES
    isRedisAvailable,   \* RedisService.isRedisAvailable
    redisStatus,        \* ioredis connection: "connecting" | "connect" | "error" | "end"
    retryTimes,         \* ioredis retry attempts since the last connect
    serverUp,           \* environment: the redis server answers commands
    redisStore,         \* remote key space: set of <<key, string value>>
    inMemoryStorage,    \* Map<string, any> in insertion order: Seq of <<key, value>>
    last,               \* the last facade call and how it ended (see Call)
    ref,                \* ghost: a single plain key/value map fed the same calls
    fallbackOnly,       \* ghost: the flag has been false since construction
    noRemoteSuccess,    \* ghost: no remote command has succeeded so far
    priceUpdateCallbacks, \* CryptoService: symbol -> list of callbacks
    monitoredSymbols,   \* CryptoService: Set<string>
    updateInterval,     \* CryptoService: the timer handle, 0 for null
    activeTimers,       \* the interval timers the runtime holds
    ticks,              \* the poll ticks in flight, each at its suspension point
    lastPass,           \* ghost: the handlePriceUpdate run that has just ended
    hook,               \* the sendNotification call in progress or just finished
    clock,              \* seconds elapsed since construction
    expiresAt,          \* remote: set of <<key, second at which SETEX expires it>>
    refExpiry,          \* ghost: <<key, second at which the TTL asked for ends>>
    session,            \* bot: ctx.session.awaitingInput of the chat, {} for undefined
    chat                \* ghost: the coin chosen and the price text sent in the alert flow

storeVars == <<isRedisAvailable, redisStatus, retryTimes, serverUp, redisStore,
               inMemoryStorage, ref, fallbackOnly, noRemoteSuccess, expiresAt,
               refExpiry>>

cacheVars == <<isRedisAvailable, redisStatus, retryTimes, serverUp, redisStore,
               inMemoryStorage, last, ref, fallbackOnly, noRemoteSuccess, expiresAt,
               refExpiry>>

pollVars == <<priceUpdateCallbacks, monitoredSymbols, updateInterval, activeTimers,
              ticks, lastPass>>

botVars == <<session, chat>>

vars == <<cacheVars, pollVars, hook, clock, botVars>>

-----------------------------------------------------------------------------
(* Bounds and input sets                                                   *)

MaxPrice == 2

Users == {1, 12}
AlertSymbols == {"DOT"}
Prices == 1..MaxPrice
\* Prices the provider reports: below, at and above every target.
ObservedPrices == 1..(MaxPrice + 1)
Symbols == {"DOT", "BTC"}
Callbacks == {"notify"}
MaxCallbacks == 2
MaxTicks == 1
MaxTimers == 2
MaxAmount == 2
MaxClock == 4
CacheTTL == 2
KVUsers == {1}
MatcherUsers == {1}
Portfolios == {{<<"BTC", n>>} : n \in 1..MaxAmount}
Urls == {"https://a.example/hook", "https://b.example/hook"}

-----------------------------------------------------------------------------
(* Strings                                                                 *)

DigitChar(d) == CASE d = 0 -> "0" [] d = 1 -> "1" [] d = 2 -> "2" [] d = 3 -> "3"
                  [] d = 4 -> "4" [] d = 5 -> "5" [] d = 6 -> "6" [] d = 7 -> "7"
                  [] d = 8 -> "8" [] d = 9 -> "9"

RECURSIVE Digits(_)
Digits(n) == IF n < 10 THEN <<DigitChar(n)>>
             ELSE Append(Digits(n \div 10), DigitChar(n % 10))

\* A JavaScript number or string where the code declares `userId: number`
\* (the matcher passes a symbol there, and undefined prints as "undefined").
Num(n) == <<"number", n>>
Str(s) == <<"string", s>>

\* `${userId}`: a number prints as its decimal digits, a string as itself.
ToStr(x) == IF x[1] = "number" THEN Digits(x[2]) ELSE <<x[2]>>

\* `${type}:${userId}${symbol ? ':' + symbol : ''}`
getKey(type, userId, symbol) ==
    <<type, ":">> \o ToStr(userId) \o (IF symbol # "" THEN <<":", symbol>> ELSE <<>>)

\* String.prototype.startsWith
StartsWith(s, prefix) ==
    /\ Len(prefix) <= Len(s)
    /\ SubSeq(s, 1, Len(prefix)) = prefix

\* Redis KEYS with a pattern whose only glob character is a trailing '*'.
GlobMatch(pattern, key) ==
    IF Len(pattern) > 0 /\ pattern[Len(pattern)] = "*"
    THEN StartsWith(key, SubSeq(pattern, 1, Len(pattern) - 1))
    ELSE key = pattern

\* key.split(':'): the sequence of the parts between the colons.
RECURSIVE Split(_)
Split(s) ==
    IF \A i \in 1..Len(s) : s[i] # ":" THEN <<s>>
    ELSE LET i == CHOOSE j \in 1..Len(s) :
                      s[j] = ":" /\ \A k \in 1..(j - 1) : s[k] # ":"
         IN  <<SubSeq(s, 1, i - 1)>> \o Split(SubSeq(s, i + 1, Len(s)))

\* key.split(':')[2]; undefined when there are fewer than three parts.
SplitField2(key) ==
    LET parts == Split(key)
    IN  IF Len(parts) >= 3 THEN parts[3] ELSE <<"undefined">>

\* JSON.stringify / JSON.parse of a plain object of finite numbers, strings, booleans.
JSONstringify(data) == [json |-> data]
JSONparse(str) == str.json
\* A stored string that is not JSON, and whether JSON.parse accepts a string.
Malformed == [text |-> "{oops"]
CanParse(str) == "json" \in DOMAIN str

-----------------------------------------------------------------------------
(* The two stores                                                          *)

\* this.redis.get(key): {} is null, {v} the stored string.
RedisGet(key) == {p[2] : p \in {q \in redisStore : q[1] = key}}
RedisSet(key, value) == {q \in redisStore : q[1] # key} \cup {<<key, value>>}
RedisDel(key) == {q \in redisStore : q[1] # key}
RedisKeys(pattern) == {q[1] : q \in {p \in redisStore : GlobMatch(pattern, p[1])}}

\* The TTL table of the remote: SETEX key seconds value, DEL key.
ExpirySet(table, key, deadline) == {e \in table : e[1] # key} \cup {<<key, deadline>>}
ExpiryDel(table, key) == {e \in table : e[1] # key}
\* The keys whose time to live has run out at second `now`.
Expired(table, now) == {e[1] : e \in {d \in table : d[2] <= now}}

\* A remote command rejects unless the connection is up and the server answers.
RedisThrows == ~(serverUp /\ redisStatus = "connect")

MemIndex(key) == {i \in 1..Len(inMemoryStorage) : inMemoryStorage[i][1] = key}
\* Map.get: {} is undefined.
MemGet(key) == {inMemoryStorage[i][2] : i \in MemIndex(key)}
\* Map.set keeps the position of a key that is present and appends a new one.
MemSet(key, value) ==
    IF MemIndex(key) # {}
    THEN [i \in 1..Len(inMemoryStorage) |->
             IF inMemoryStorage[i][1] = key THEN <<key, value>> ELSE inMemoryStorage[i]]
    ELSE Append(inMemoryStorage, <<key, value>>)
\* Map.delete
MemDelete(key) == SelectSeq(inMemoryStorage, LAMBDA e : e[1] # key)

\* The reference map of the ghost.
RefGet(key) == {p[2] : p \in {q \in ref : q[1] = key}}
RefSet(key, value) == {q \in ref : q[1] # key} \cup {<<key, value>>}
RefDel(key) == {q \in ref : q[1] # key}

-----------------------------------------------------------------------------
(* Initial state: after `new RedisService()`                               *)

\* A finished facade call: the method, its arguments, the cache key it works
\* on, the value it was asked to write ({} if none), whether it left by
\* exception, whether a remote command it issued was rejected, and the value
\* it returned ({} for null or void, {v} otherwise).
Call(op, args, key, written, threw, remoteFailed, val) ==
    [op |-> op, args |-> args, key |-> key, written |-> written, threw |-> threw,
     remoteFailed |-> remoteFailed, val |-> val]

NoCall == Call("none", <<>>, <<>>, {}, FALSE, FALSE, {})

\* A poll tick: where it is suspended, the Object.entries(prices) still to
\* handle (head: the one being handled), the alerts the for...of still has to
\* visit, and, as ghosts of the current handlePriceUpdate run, the alerts
\* stored for its symbol when it began, the alerts it matched, the callback
\* invocations it made and whether no user call touched the alerts meanwhile.
IdleTick == [pc |-> "idle", symbols |-> {}, queue |-> <<>>, pending |-> <<>>,
             startAlerts |-> {}, fired |-> {}, calls |-> <<>>, clean |-> TRUE]

\* A sendNotification call: where it is suspended, the user, the URL the
\* lookup gave ({} for null), the attempt argument of sendWithRetry, the
\* outcome of each axios.post made so far, the setTimeout delays waited so
\* far (ms) and the value returned ({} while running).
NoDelivery == [pc |-> "idle", userId |-> 0, url |-> {}, attempt |-> 0,
               outcomes |-> <<>>, delays |-> <<>>, result |-> {}]

NoPass == [symbol |-> "", price |-> 0, startAlerts |-> {}, fired |-> {},
           calls |-> <<>>, clean |-> FALSE]

Init ==
    /\ isRedisAvailable = FALSE
    /\ redisStatus = "connecting"
    /\ retryTimes = 0
    /\ serverUp \in BOOLEAN
    /\ redisStore = {}
    /\ inMemoryStorage = <<>>
    /\ last = NoCall
    /\ ref = {}
    /\ fallbackOnly = TRUE
    /\ noRemoteSuccess = TRUE
    /\ priceUpdateCallbacks = [s \in Symbols |-> <<>>]
    /\ monitoredSymbols = {}
    /\ updateInterval = 0
    /\ activeTimers = {}
    /\ ticks = [i \in 1..MaxTicks |-> IdleTick]
    /\ lastPass = NoPass
    /\ hook = NoDelivery
    /\ clock = 0
    /\ expiresAt = {}
    /\ refExpiry = {}
    /\ session = [awaitingInput |-> {}]
    /\ chat = [coin |-> {}, priceText |-> {}]

-----------------------------------------------------------------------------
(* The remote connection (ioredis) as seen by initializeRedis              *)

\* The environment: the server stops or starts answering.
ServerDown ==
    /\ serverUp
    /\ serverUp' = FALSE
    /\ last' = NoCall
    /\ UNCHANGED <<isRedisAvailable, redisStatus, retryTimes, redisStore,
                   inMemoryStorage, ref, fallbackOnly, noRemoteSuccess,
                   expiresAt, refExpiry>>

ServerUp ==
    /\ ~serverUp
    /\ serverUp' = TRUE
    /\ last' = NoCall
    /\ UNCHANGED <<isRedisAvailable, redisStatus, retryTimes, redisStore,
                   inMemoryStorage, ref, fallbackOnly, noRemoteSuccess,
                   expiresAt, refExpiry>>

\* this.redis.on('connect', ...): the flag becomes true.
RedisConnect ==
    /\ redisStatus = "connecting"
    /\ serverUp
    /\ redisStatus' = "connect"
    /\ retryTimes' = 0
    /\ isRedisAvailable' = TRUE
    /\ fallbackOnly' = FALSE
    /\ last' = NoCall
    /\ UNCHANGED <<serverUp, redisStore, inMemoryStorage, ref, noRemoteSuccess,
                   expiresAt, refExpiry>>

\* this.redis.on('error', ...): the socket fails (a refused connect or a
\* broken connection) and the flag becomes false; the socket's close follows.
RedisError ==
    /\ redisStatus \in {"connecting", "connect"}
    /\ ~serverUp
    /\ redisStatus' = "error"
    /\ isRedisAvailable' = FALSE
    /\ last' = NoCall
    /\ UNCHANGED <<retryTimes, serverUp, redisStore, inMemoryStorage,
                   ref, fallbackOnly, noRemoteSuccess,
                   expiresAt, refExpiry>>

\* retryStrategy(times): null (stop, flag false) when times > 1, else 1000 ms.
retryStrategy(times) == IF times > 1 THEN "null" ELSE "retry"

\* The connection closes (after a socket error, or because the server that
\* went away closed it); ioredis asks retryStrategy whether to reconnect.
RedisClose ==
    /\ \/ redisStatus = "error"
       \/ redisStatus \in {"connecting", "connect"} /\ ~serverUp
    /\ IF retryStrategy(retryTimes + 1) = "null"
       THEN /\ isRedisAvailable' = FALSE
            /\ redisStatus' = "end"
            /\ UNCHANGED retryTimes
       ELSE /\ redisStatus' = "connecting"
            /\ retryTimes' = retryTimes + 1
            /\ UNCHANGED isRedisAvailable
    /\ last' = NoCall
    /\ UNCHANGED <<serverUp, redisStore, inMemoryStorage, ref, fallbackOnly,
                   noRemoteSuccess,
                   expiresAt, refExpiry>>

-----------------------------------------------------------------------------
(* RedisService: price alerts                                              *)

\* Whether a call made now reaches the remote, and whether the remote answers.
RemoteOK == isRedisAvailable /\ ~RedisThrows
RemoteFails == isRedisAvailable /\ RedisThrows

AlertData(symbol, price, isAbove) ==
    [symbol |-> symbol, price |-> price, isAbove |-> isAbove]

setPriceAlert(userId, symbol, price, isAbove) ==
    LET key == getKey("alert", userId, symbol)
        data == AlertData(symbol, price, isAbove)
    IN  /\ IF isRedisAvailable
           THEN IF RedisThrows
                THEN \* catch: fallback to in-memory
                     /\ inMemoryStorage' = MemSet(key, data)
                     /\ UNCHANGED redisStore
                ELSE /\ redisStore' = RedisSet(key, JSONstringify(data))
                     /\ UNCHANGED inMemoryStorage
           ELSE /\ inMemoryStorage' = MemSet(key, data)
                /\ UNCHANGED redisStore
        /\ last' = Call("setPriceAlert", <<userId, symbol>>, key, {data}, FALSE, RemoteFails, {})
        /\ ref' = RefSet(key, data)
        /\ noRemoteSuccess' = (noRemoteSuccess /\ ~RemoteOK)
        /\ UNCHANGED <<isRedisAvailable, redisStatus, retryTimes, serverUp, fallbackOnly,
                   expiresAt, refExpiry>>

\* The in-memory listing: the entries whose key starts with `alert:${userId}`,
\* in insertion order, each assigned to alerts[key.split(':')[2]]; a later
\* entry with the same field overwrites an earlier one.
MemAlertPrefix(userId) == <<"alert", ":">> \o ToStr(userId)

MemAlerts(userId) ==
    LET idx == {i \in 1..Len(inMemoryStorage) :
                   StartsWith(inMemoryStorage[i][1], MemAlertPrefix(userId))}
        lastOf(f) == CHOOSE i \in idx :
                        /\ SplitField2(inMemoryStorage[i][1]) = f
                        /\ \A j \in idx :
                              SplitField2(inMemoryStorage[j][1]) = f => j <= i
    IN  {<<f, inMemoryStorage[lastOf(f)][2]>> :
            f \in {SplitField2(inMemoryStorage[i][1]) : i \in idx}}

\* The remote listing: KEYS alert:{userId}:* and a GET of each key.
RedisAlerts(userId) ==
    {<<SplitField2(k), JSONparse(v)>> :
        <<k, v>> \in {q \in redisStore : GlobMatch(getKey("alert", userId, "*"), q[1])}}

\* The object getPriceAlerts returns: a set of <<field, alert data>>.
\* Whether the JSON.parse of some entry of the remote listing throws.
RedisAlertsThrow(userId) ==
    \E q \in redisStore :
        GlobMatch(getKey("alert", userId, "*"), q[1]) /\ ~CanParse(q[2])

getPriceAlertsResult(userId) ==
    IF isRedisAvailable
    THEN IF RedisThrows \/ RedisAlertsThrow(userId)
         THEN MemAlerts(userId)    \* catch: the in-memory listing instead
         ELSE RedisAlerts(userId)
    ELSE MemAlerts(userId)

getPriceAlerts(userId) ==
    /\ last' = Call("getPriceAlerts", <<userId>>, getKey("alert", userId, "*"), {}, FALSE,
                   RemoteFails, {getPriceAlertsResult(userId)})
    /\ noRemoteSuccess' = (noRemoteSuccess /\ ~RemoteOK)
    /\ UNCHANGED <<isRedisAvailable, redisStatus, retryTimes, serverUp, redisStore,
                   inMemoryStorage, ref, fallbackOnly,
                   expiresAt, refExpiry>>

\* No try/catch: a rejected redis.del leaves the method by exception.
removePriceAlert(userId, symbol, isAbove) ==
    LET key == getKey("alert", userId, symbol)
        threw == isRedisAvailable /\ RedisThrows
    IN  /\ IF isRedisAvailable
           THEN /\ redisStore' = IF RedisThrows THEN redisStore ELSE RedisDel(key)
                /\ UNCHANGED inMemoryStorage
           ELSE /\ inMemoryStorage' = MemDelete(key)
                /\ UNCHANGED redisStore
        /\ last' = Call("removePriceAlert", <<userId, symbol, isAbove>>, key, {}, threw,
                       RemoteFails, {})
        /\ ref' = IF threw THEN ref ELSE RefDel(key)
        /\ noRemoteSuccess' = (noRemoteSuccess /\ ~RemoteOK)
        /\ UNCHANGED <<isRedisAvailable, redisStatus, retryTimes, serverUp, fallbackOnly,
                   expiresAt, refExpiry>>


\* A loop over the Map's keys that deletes nothing.
MemClearNothing(userId) == inMemoryStorage

\* for (const key of this.inMemoryStorage.keys())
\*     if (key.startsWith(`alert:${userId}`)) this.inMemoryStorage.delete(key)
MemClearAlerts(userId) ==
    SelectSeq(inMemoryStorage, LAMBDA e : ~StartsWith(e[1], MemAlertPrefix(userId)))

\* KEYS alert:{userId}:* then one DEL of all the keys found.
RedisClearAlerts(userId) ==
    {q \in redisStore : ~GlobMatch(getKey("alert", userId, "*"), q[1])}

\* A rejected KEYS or DEL goes to the catch, which clears the Map only; the
\* try body clears the Map as well after the remote.
clearUserAlerts(userId) ==
    LET pattern == getKey("alert", userId, "*")
    IN  /\ IF isRedisAvailable
           THEN IF RedisThrows
                THEN /\ inMemoryStorage' = MemClearAlerts(userId)
                     /\ UNCHANGED redisStore
                ELSE /\ redisStore' = RedisClearAlerts(userId)
                     /\ inMemoryStorage' = MemClearAlerts(userId)
           ELSE /\ inMemoryStorage' = MemClearAlerts(userId)
                /\ UNCHANGED redisStore
        /\ last' = Call("clearUserAlerts", <<userId>>, pattern, {}, FALSE, RemoteFails, {})
        /\ ref' = {q \in ref : ~GlobMatch(pattern, q[1])}
        /\ noRemoteSuccess' = (noRemoteSuccess /\ ~RemoteOK)
        /\ UNCHANGED <<isRedisAvailable, redisStatus, retryTimes, serverUp, fallbackOnly,
                       expiresAt, refExpiry>>

-----------------------------------------------------------------------------
(* RedisService: generic cache, portfolio, webhook                         *)

\* `x || fallback` on a Map.get result; the stored values here (non-empty
\* strings, objects) are all truthy, so only undefined takes the fallback.
OrElse(got, fallback) == IF got = {} THEN fallback ELSE got

\* No try/catch: a rejected redis.set leaves the method by exception and
\* nothing is written anywhere.
setCacheWithExpiry(key, value, expirySeconds) ==
    LET threw == isRedisAvailable /\ RedisThrows
    IN  /\ IF isRedisAvailable
           THEN /\ redisStore' = IF RedisThrows THEN redisStore ELSE RedisSet(key, value)
                /\ expiresAt' = IF RedisThrows THEN expiresAt
                                ELSE ExpirySet(expiresAt, key, clock + expirySeconds)
                /\ UNCHANGED inMemoryStorage
           ELSE \* Map.set: expirySeconds is not used
                /\ inMemoryStorage' = MemSet(key, value)
                /\ UNCHANGED <<redisStore, expiresAt>>
        /\ last' = Call("setCacheWithExpiry", <<key>>, key, {value}, threw, RemoteFails, {})
        /\ ref' = IF threw THEN ref ELSE RefSet(key, value)
        /\ refExpiry' = IF threw THEN refExpiry
                        ELSE ExpirySet(refExpiry, key, clock + expirySeconds)
        /\ noRemoteSuccess' = (noRemoteSuccess /\ ~RemoteOK)
        /\ UNCHANGED <<isRedisAvailable, redisStatus, retryTimes, serverUp, fallbackOnly>>

getCache(key) ==
    LET threw == isRedisAvailable /\ RedisThrows
        val == IF isRedisAvailable
               THEN IF RedisThrows THEN {} ELSE RedisGet(key)
               ELSE OrElse(MemGet(key), {})
    IN  /\ last' = Call("getCache", <<key>>, key, {}, threw, RemoteFails, val)
        /\ noRemoteSuccess' = (noRemoteSuccess /\ ~RemoteOK)
        /\ UNCHANGED <<isRedisAvailable, redisStatus, retryTimes, serverUp, redisStore,
                       inMemoryStorage, ref, fallbackOnly,
                   expiresAt, refExpiry>>

deleteCache(key) ==
    LET threw == isRedisAvailable /\ RedisThrows
    IN  /\ IF isRedisAvailable
           THEN /\ redisStore' = IF RedisThrows THEN redisStore ELSE RedisDel(key)
                /\ expiresAt' = IF RedisThrows THEN expiresAt ELSE ExpiryDel(expiresAt, key)
                /\ UNCHANGED inMemoryStorage
           ELSE /\ inMemoryStorage' = MemDelete(key)
                /\ UNCHANGED <<redisStore, expiresAt>>
        /\ last' = Call("deleteCache", <<key>>, key, {}, threw, RemoteFails, {})
        /\ ref' = IF threw THEN ref ELSE RefDel(key)
        /\ refExpiry' = IF threw THEN refExpiry ELSE ExpiryDel(refExpiry, key)
        /\ noRemoteSuccess' = (noRemoteSuccess /\ ~RemoteOK)
        /\ UNCHANGED <<isRedisAvailable, redisStatus, retryTimes, serverUp, fallbackOnly>>

\* A portfolio (Record<string, number>) is a set of <<symbol, amount>>; {} is `{}`.
EmptyPortfolio == {}

setUserPortfolio(userId, portfolio) ==
    LET key == getKey("portfolio", userId, "")
    IN  /\ IF isRedisAvailable
           THEN IF RedisThrows
                THEN /\ inMemoryStorage' = MemSet(key, portfolio)
                     /\ UNCHANGED redisStore
                ELSE /\ redisStore' = RedisSet(key, JSONstringify(portfolio))
                     /\ UNCHANGED inMemoryStorage
           ELSE /\ inMemoryStorage' = MemSet(key, portfolio)
                /\ UNCHANGED redisStore
        /\ last' = Call("setUserPortfolio", <<userId>>, key, {portfolio}, FALSE, RemoteFails, {})
        /\ ref' = RefSet(key, portfolio)
        /\ noRemoteSuccess' = (noRemoteSuccess /\ ~RemoteOK)
        /\ UNCHANGED <<isRedisAvailable, redisStatus, retryTimes, serverUp, fallbackOnly,
                   expiresAt, refExpiry>>

getUserPortfolioResult(userId) ==
    LET key == getKey("portfolio", userId, "")
    IN  IF isRedisAvailable /\ ~RedisThrows
        THEN IF RedisGet(key) = {} THEN {EmptyPortfolio}
             ELSE {JSONparse(d) : d \in RedisGet(key)}
        ELSE OrElse(MemGet(key), {EmptyPortfolio})

getUserPortfolio(userId) ==
    /\ last' = Call("getUserPortfolio", <<userId>>, getKey("portfolio", userId, ""), {}, FALSE,
                   RemoteFails, getUserPortfolioResult(userId))
    /\ noRemoteSuccess' = (noRemoteSuccess /\ ~RemoteOK)
    /\ UNCHANGED <<isRedisAvailable, redisStatus, retryTimes, serverUp, redisStore,
                   inMemoryStorage, ref, fallbackOnly,
                   expiresAt, refExpiry>>

setWebhook(userId, url) ==
    LET key == getKey("webhook", userId, "")
    IN  /\ IF isRedisAvailable
           THEN IF RedisThrows
                THEN /\ inMemoryStorage' = MemSet(key, url)
                     /\ UNCHANGED redisStore
                ELSE /\ redisStore' = RedisSet(key, url)
                     /\ UNCHANGED inMemoryStorage
           ELSE /\ inMemoryStorage' = MemSet(key, url)
                /\ UNCHANGED redisStore
        /\ last' = Call("setWebhook", <<userId>>, key, {url}, FALSE, RemoteFails, {})
        /\ ref' = RefSet(key, url)
        /\ noRemoteSuccess' = (noRemoteSuccess /\ ~RemoteOK)
        /\ UNCHANGED <<isRedisAvailable, redisStatus, retryTimes, serverUp, fallbackOnly,
                   expiresAt, refExpiry>>

\* {} is null.
getWebhookResult(userId) ==
    LET key == getKey("webhook", userId, "")
    IN  IF isRedisAvailable /\ ~RedisThrows
        THEN RedisGet(key)
        ELSE OrElse(MemGet(key), {})

getWebhook(userId) ==
    /\ last' = Call("getWebhook", <<userId>>, getKey("webhook", userId, ""), {}, FALSE,
                   RemoteFails, getWebhookResult(userId))
    /\ noRemoteSuccess' = (noRemoteSuccess /\ ~RemoteOK)
    /\ UNCHANGED <<isRedisAvailable, redisStatus, retryTimes, serverUp, redisStore,
                   inMemoryStorage, ref, fallbackOnly,
                   expiresAt, refExpiry>>

removeWebhook(userId) ==
    LET key == getKey("webhook", userId, "")
        threw == isRedisAvailable /\ RedisThrows
    IN  /\ IF isRedisAvailable
           THEN /\ redisStore' = IF RedisThrows THEN redisStore ELSE RedisDel(key)
                /\ UNCHANGED inMemoryStorage
           ELSE /\ inMemoryStorage' = MemDelete(key)
                /\ UNCHANGED redisStore
        /\ last' = Call("removeWebhook", <<userId>>, key, {}, threw, RemoteFails, {})
        /\ ref' = IF threw THEN ref ELSE RefDel(key)
        /\ noRemoteSuccess' = (noRemoteSuccess /\ ~RemoteOK)
        /\ UNCHANGED <<isRedisAvailable, redisStatus, retryTimes, serverUp, fallbackOnly,
                   expiresAt, refExpiry>>



-----------------------------------------------------------------------------
(* CryptoService: the price poller                                         *)

\* `price:${symbol}` and the snapshot JSON.stringify(data) cached under it.
PriceKey(symbol) == <<"price", ":", symbol>>
Snapshot(price) == JSONstringify([price |-> price])
PRICE_TTL == 300

\* setInterval hands out a handle no live timer has.
NewTimer(live) == CHOOSE id \in 1..(MaxTimers + 1) :
                     id \notin live /\ \A j \in 1..(id - 1) : j \in live

\* A start that installs its timer without clearing the one that runs.
startAdditive(symbols) ==
    /\ Cardinality(activeTimers) < MaxTimers
    /\ monitoredSymbols' = monitoredSymbols \cup symbols
    /\ updateInterval' = NewTimer(activeTimers)
    /\ activeTimers' = activeTimers \cup {NewTimer(activeTimers)}
    /\ lastPass' = NoPass
    /\ last' = NoCall
    /\ UNCHANGED <<priceUpdateCallbacks, ticks, storeVars, hook, clock, botVars>>

startPriceMonitoring(symbols) ==
    LET cleared == IF updateInterval # 0 THEN activeTimers \ {updateInterval}
                   ELSE activeTimers
    IN  /\ Cardinality(cleared) < MaxTimers
        /\ monitoredSymbols' = monitoredSymbols \cup symbols
        /\ updateInterval' = NewTimer(cleared)
        /\ activeTimers' = cleared \cup {NewTimer(cleared)}
        /\ lastPass' = NoPass
        /\ last' = NoCall
        /\ UNCHANGED <<priceUpdateCallbacks, ticks, storeVars, hook, clock, botVars>>

\* The getPrices([symbol]) it may start is not awaited and its result is dropped.
onPriceUpdate(symbol, callback) ==
    /\ Len(priceUpdateCallbacks[symbol]) < MaxCallbacks
    /\ priceUpdateCallbacks' =
           [priceUpdateCallbacks EXCEPT ![symbol] = Append(@, callback)]
    /\ monitoredSymbols' = monitoredSymbols \cup {symbol}
    /\ lastPass' = NoPass
    /\ last' = NoCall
    /\ UNCHANGED <<updateInterval, activeTimers, ticks, storeVars, hook, clock, botVars>>

\* A stop that only pauses: the timer is cancelled, the rest is kept.
stopPause ==
    /\ activeTimers' = IF updateInterval # 0 THEN activeTimers \ {updateInterval}
                       ELSE activeTimers
    /\ updateInterval' = 0
    /\ lastPass' = NoPass
    /\ last' = NoCall
    /\ UNCHANGED <<monitoredSymbols, priceUpdateCallbacks, ticks, storeVars, hook, clock, botVars>>

\* A stop that empties the monitored set and keeps the subscriptions.
stopKeepsCallbacks ==
    /\ activeTimers' = IF updateInterval # 0 THEN activeTimers \ {updateInterval}
                       ELSE activeTimers
    /\ updateInterval' = 0
    /\ monitoredSymbols' = {}
    /\ lastPass' = NoPass
    /\ last' = NoCall
    /\ UNCHANGED <<priceUpdateCallbacks, ticks, storeVars, hook, clock, botVars>>

stopMonitoring ==
    /\ activeTimers' = IF updateInterval # 0 THEN activeTimers \ {updateInterval}
                       ELSE activeTimers
    /\ updateInterval' = 0
    /\ monitoredSymbols' = {}
    /\ priceUpdateCallbacks' = [s \in Symbols |-> <<>>]
    /\ lastPass' = NoPass
    /\ last' = NoCall
    /\ UNCHANGED <<ticks, storeVars, hook, clock, botVars>>

\* A live interval timer fires: the callback reads the monitored set and
\* awaits getPrices.
TimerFires ==
    /\ activeTimers # {}
    /\ \E i \in 1..MaxTicks :
          /\ ticks[i].pc = "idle"
          /\ \A j \in 1..(i - 1) : ticks[j].pc # "idle"
          /\ ticks' = [ticks EXCEPT ![i] =
                          [IdleTick EXCEPT !.pc = "fetch", !.symbols = monitoredSymbols]]
    /\ lastPass' = NoPass
    /\ last' = NoCall
    /\ UNCHANGED <<priceUpdateCallbacks, monitoredSymbols, updateInterval,
                   activeTimers, storeVars, hook, clock, botVars>>

\* Object.entries of a getPrices answer for the symbols asked: one
\* <<symbol, price>> per symbol, in the order the provider chose.
Responses(symbols) ==
    LET n == Cardinality(symbols)
        orders == {o \in [1..n -> symbols] : \A a, b \in 1..n : o[a] = o[b] => a = b}
    IN  {[k \in 1..n |-> <<o[k], pr[o[k]]>>] :
            o \in orders, pr \in [symbols -> ObservedPrices]}

\* getPrices resolves: the tick starts on the first entry, or is over.
getPricesResolves(i) ==
    /\ ticks[i].pc = "fetch"
    /\ \E q \in Responses(ticks[i].symbols) :
          ticks' = [ticks EXCEPT ![i] =
                       IF q = <<>> THEN IdleTick
                       ELSE [@ EXCEPT !.pc = "cache", !.queue = q]]
    /\ lastPass' = NoPass
    /\ last' = NoCall
    /\ UNCHANGED <<priceUpdateCallbacks, monitoredSymbols, updateInterval,
                   activeTimers, storeVars, hook, clock, botVars>>

\* Ghost value of lastPass: a tick has just ended on a rejected fetch.
FetchFailed == [NoPass EXCEPT !.symbol = "fetch failed"]

\* A rejected fetch that is not caught and takes the timer down with it.
getPricesRejectsFatal(i) ==
    /\ ticks[i].pc = "fetch"
    /\ ticks' = [ticks EXCEPT ![i] = IdleTick]
    /\ lastPass' = FetchFailed
    /\ last' = NoCall
    /\ activeTimers' = {}
    /\ UNCHANGED <<priceUpdateCallbacks, monitoredSymbols, updateInterval,
                   storeVars, hook, clock, botVars>>

\* getPrices rejects: the tick's catch logs it and the tick is over.
getPricesRejects(i) ==
    /\ ticks[i].pc = "fetch"
    /\ ticks' = [ticks EXCEPT ![i] = IdleTick]
    /\ lastPass' = FetchFailed
    /\ last' = NoCall
    /\ UNCHANGED <<priceUpdateCallbacks, monitoredSymbols, updateInterval,
                   activeTimers, storeVars, hook, clock, botVars>>

-----------------------------------------------------------------------------
(* CryptoService: the alert matcher                                        *)

\* A JavaScript value as for...of sees it: an array is iterable, a plain
\* object (what getPriceAlerts returns) is not and makes for...of throw a
\* TypeError.
JSObject(entries) == [kind |-> "object", entries |-> entries]
IsIterable(v) == v.kind = "array"
Elements(v) == IF v.kind = "array" THEN v.entries ELSE <<>>

\* obj.name: {} is undefined.
Field(obj, name) == IF name \in DOMAIN obj THEN {obj[name]} ELSE {}

\* The "legacy format" conversion of an element of alerts.
TypedAlert(alert) ==
    [condition |-> IF Field(alert, "isAbove") = {TRUE} THEN "above" ELSE "below",
     price |-> Field(alert, "targetPrice"),
     userId |-> Field(alert, "userId")]

\* The trigger condition; a comparison with undefined is false.
ConditionMet(typedAlert, price) ==
    \/ typedAlert.condition = "above" /\ \E target \in typedAlert.price : price >= target
    \/ typedAlert.condition = "below" /\ \E target \in typedAlert.price : price <= target

RECURSIVE SkipUnmet(_, _)
SkipUnmet(pending, price) ==
    IF pending = <<>> \/ ConditionMet(TypedAlert(Head(pending)), price) THEN pending
    ELSE SkipUnmet(Tail(pending), price)

\* The alerts the registry holds for a symbol, by the calls made so far.
StoredFor(symbol) ==
    {q \in ref : q[1][1] = "alert" /\ q[2].symbol = symbol}

\* handlePriceUpdate returns (normally or through its catch): the tick goes
\* on with the next entry.
EndPass(i, t) ==
    /\ lastPass' = [symbol |-> t.queue[1][1], price |-> t.queue[1][2],
                    startAlerts |-> t.startAlerts, fired |-> t.fired,
                    calls |-> t.calls, clean |-> t.clean]
    /\ ticks' = [ticks EXCEPT ![i] =
                    IF Tail(t.queue) = <<>> THEN IdleTick
                    ELSE [IdleTick EXCEPT !.pc = "cache", !.symbols = t.symbols,
                                          !.queue = Tail(t.queue)]]

\* A pass that deletes user 1's alert of the symbol and invokes no callback.
handlePriceUpdateSilent(i) ==
    LET t == ticks[i]
        symbol == t.queue[1][1]
    IN  /\ t.pc \in {"cache", "alerts", "loop"}
        /\ removePriceAlert(Num(1), symbol, TRUE)
        /\ EndPass(i, [t EXCEPT !.startAlerts = StoredFor(symbol),
                                !.fired = {q[2] : q \in StoredFor(symbol)},
                                !.calls = <<>>,
                                !.clean = TRUE])
        /\ UNCHANGED <<priceUpdateCallbacks, monitoredSymbols, updateInterval,
                       activeTimers, hook, clock, botVars>>

\* A pass that takes every alert as met: it invokes the symbol's callbacks
\* and clears the alerts of user 1, whatever their symbol and condition.
handlePriceUpdateUnconditional(i) ==
    LET t == ticks[i]
        symbol == t.queue[1][1]
        price == t.queue[1][2]
        callbacks == priceUpdateCallbacks[symbol]
    IN  /\ t.pc \in {"cache", "alerts", "loop"}
        /\ clearUserAlerts(Num(1))
        /\ EndPass(i, [t EXCEPT !.startAlerts = StoredFor(symbol),
                                !.fired = {q[2] : q \in StoredFor(symbol)},
                                !.calls = [k \in 1..Len(callbacks) |->
                                             <<callbacks[k], symbol, price>>],
                                !.clean = TRUE])
        /\ UNCHANGED <<priceUpdateCallbacks, monitoredSymbols, updateInterval,
                       activeTimers, hook, clock, botVars>>

\* One run of handlePriceUpdate(symbol, data) for the head of the tick's
\* entries, from one suspension point to the next.
handlePriceUpdate(i) ==
    LET t == ticks[i]
        symbol == t.queue[1][1]
        price == t.queue[1][2]
    IN  /\ t.pc \in {"cache", "alerts", "loop"}
        /\ CASE t.pc = "cache" ->
                  LET started == [t EXCEPT !.startAlerts = StoredFor(symbol),
                                           !.fired = {}, !.calls = <<>>,
                                           !.clean = TRUE, !.pending = <<>>]
                  IN  /\ setCacheWithExpiry(PriceKey(symbol), Snapshot(price), PRICE_TTL)
                      /\ IF RemoteFails
                         THEN EndPass(i, started)
                         ELSE /\ ticks' = [ticks EXCEPT ![i] =
                                              [started EXCEPT !.pc = "alerts"]]
                              /\ lastPass' = NoPass
             [] t.pc = "alerts" ->
                  \* getPriceAlerts is called with the symbol as its userId
                  LET alerts == JSObject(getPriceAlertsResult(Str(symbol)))
                  IN  /\ getPriceAlerts(Str(symbol))
                      /\ IF ~IsIterable(alerts)
                         THEN EndPass(i, t)
                         ELSE /\ ticks' = [ticks EXCEPT ![i] =
                                              [t EXCEPT !.pc = "loop",
                                                        !.pending = Elements(alerts)]]
                              /\ lastPass' = NoPass
             [] t.pc = "loop" ->
                  LET rest == SkipUnmet(t.pending, price)
                  IN  IF rest = <<>>
                      THEN /\ EndPass(i, t)
                           /\ last' = NoCall
                           /\ UNCHANGED storeVars
                      ELSE LET typedAlert == TypedAlert(Head(rest))
                               callbacks == priceUpdateCallbacks[symbol]
                               userId == IF typedAlert.userId = {} THEN Str("undefined")
                                         ELSE CHOOSE u \in typedAlert.userId : TRUE
                               t2 == [t EXCEPT
                                         !.fired = @ \cup {Head(rest)},
                                         !.calls = @ \o [k \in 1..Len(callbacks) |->
                                                           <<callbacks[k], symbol, price>>],
                                         !.pending = Tail(rest)]
                           IN  /\ removePriceAlert(userId, symbol,
                                                   typedAlert.condition = "above")
                               /\ IF RemoteFails
                                  THEN EndPass(i, t2)
                                  ELSE /\ ticks' = [ticks EXCEPT ![i] = t2]
                                       /\ lastPass' = NoPass
        /\ UNCHANGED <<priceUpdateCallbacks, monitoredSymbols, updateInterval,
                       activeTimers, hook, clock, botVars>>

-----------------------------------------------------------------------------
(* WebhookService                                                          *)

MAX_RETRIES == 3
RETRY_DELAY == 1000

\* What one axios.post can come to: a 2xx response, a response with another
\* status (axios rejects it), a network error, the 5000 ms timeout.
PostOutcomes == {"2xx", "non2xx", "network error", "timeout"}

\* `!webhookUrl`: the lookup gave null.
NoUrlEver(webhookUrl) == FALSE

NoUrl(webhookUrl) == webhookUrl = {}

\* sendNotification up to its first HTTP call: the URL lookup, then false if
\* there is none, else sendWithRetry(url, payload, 1).
sendNotification(userId) ==
    /\ hook.pc \in {"idle", "done"}
    /\ getWebhook(userId)
    /\ hook' = IF NoUrl(getWebhookResult(userId))
               THEN [NoDelivery EXCEPT !.pc = "done", !.userId = userId,
                                       !.result = {FALSE}]
               ELSE [NoDelivery EXCEPT !.pc = "post", !.userId = userId,
                                       !.url = getWebhookResult(userId),
                                       !.attempt = 1]
    /\ UNCHANGED <<pollVars, clock, botVars>>

\* A retry test that is off by one: one attempt too many.
ShouldRetryInclusive(attempt) == attempt <= MAX_RETRIES

\* The catch of sendWithRetry retries while attempt < MAX_RETRIES.
ShouldRetry(attempt) == attempt < MAX_RETRIES

\* Mutations of the success test: no response counts, every response counts.
IsSuccessNever(outcome) == FALSE
IsSuccessAnyResponse(outcome) == outcome \in {"2xx", "non2xx"}

\* response.status >= 200 && response.status < 300
IsSuccess(outcome) == outcome = "2xx"

\* A backoff that does not grow.
RetryDelayConstant(attempt) == RETRY_DELAY

\* setTimeout(resolve, this.RETRY_DELAY * attempt), in ms
RetryDelayMs(attempt) == RETRY_DELAY * attempt

\* The axios.post of sendWithRetry(url, payload, attempt) settles.
axiosPost(outcome) ==
    /\ hook.pc = "post"
    /\ hook' = IF IsSuccess(outcome)
               THEN [hook EXCEPT !.pc = "done", !.result = {TRUE},
                                 !.outcomes = Append(@, outcome)]
               ELSE IF ShouldRetry(hook.attempt)
               THEN [hook EXCEPT !.pc = "delay",
                                 !.outcomes = Append(@, outcome),
                                 !.delays = Append(@, RetryDelayMs(hook.attempt))]
               ELSE [hook EXCEPT !.pc = "done", !.result = {FALSE},
                                 !.outcomes = Append(@, outcome)]
    /\ last' = NoCall
    /\ UNCHANGED <<storeVars, pollVars, clock, botVars>>

\* A retry timer that never resolves.
retryDelayLost == hook.pc = "delay" /\ UNCHANGED vars

\* The setTimeout elapses: sendWithRetry(url, payload, attempt + 1).
retryDelayElapses ==
    /\ hook.pc = "delay"
    /\ hook' = [hook EXCEPT !.pc = "post", !.attempt = @ + 1]
    /\ last' = NoCall
    /\ UNCHANGED <<storeVars, pollVars, clock, botVars>>

-----------------------------------------------------------------------------
(* Time                                                                    *)

\* One second passes: the remote drops the keys whose SETEX time has run
\* out; the Map of the fallback store has no notion of time.
TimePasses ==
    /\ clock < MaxClock
    /\ clock' = clock + 1
    /\ redisStore' = {q \in redisStore : q[1] \notin Expired(expiresAt, clock + 1)}
    /\ expiresAt' = {e \in expiresAt : e[1] \notin Expired(expiresAt, clock + 1)}
    /\ last' = NoCall
    /\ UNCHANGED <<isRedisAvailable, redisStatus, retryTimes, serverUp, inMemoryStorage,
                   ref, fallbackOnly, noRemoteSuccess, refExpiry, pollVars, hook, botVars>>

-----------------------------------------------------------------------------
(* SentinelTradeBot: the chat alert flow                                   *)

popularCoins == {"BTC", "ETH", "DOT", "BNB", "SOL"}

\* The texts a user sends: a symbol, or the decimal text of a price.
Texts == {"DOT"} \cup {DigitChar(p) : p \in Prices}

\* parseFloat on these texts: the number a decimal text denotes, {} for NaN.
parseFloat(text) == {n \in 0..9 : DigitChar(n) = text}

Awaiting(command, step) == {[command |-> command, step |-> step]}

\* callback_query:data "alert_<coin>": the coin is put in the prompt only.
alertCallback(coin) ==
    /\ session' = [session EXCEPT !.awaitingInput =
                      IF coin = "other" THEN Awaiting("alert", "coin")
                      ELSE Awaiting("alert", "price")]
    /\ chat' = [coin |-> IF coin = "other" THEN {} ELSE {coin}, priceText |-> {}]
    /\ last' = NoCall
    /\ lastPass' = NoPass
    /\ UNCHANGED <<storeVars, priceUpdateCallbacks, monitoredSymbols, updateInterval,
                   activeTimers, ticks, hook, clock>>

\* message:text that is no menu button, while the session awaits input:
\* handleAwaitingInput, and handleAlertCommand at the price step.  `from` is
\* ctx.from?.id, {} when the update names no sender.
messageText(from, text) ==
    /\ session.awaitingInput # {}
    /\ LET awaiting == CHOOSE x \in session.awaitingInput : TRUE
           price == parseFloat(text)
           cleared == [session EXCEPT !.awaitingInput = {}]
       IN  CASE awaiting.step = "coin" ->
                  \* the step is set to 'price' and, after the switch, cleared
                  /\ session' = cleared
                  /\ chat' = [coin |-> {text}, priceText |-> {}]
                  /\ last' = NoCall
                  /\ UNCHANGED storeVars
             [] awaiting.step = "price" /\ price = {} ->
                  \* isNaN: reply and return
                  /\ last' = NoCall
                  /\ UNCHANGED <<session, chat, storeVars>>
             [] awaiting.step = "price" /\ price # {} ->
                  /\ session' = cleared
                  /\ chat' = [chat EXCEPT !.priceText = {text}]
                  /\ IF from = {}
                     THEN /\ last' = NoCall
                          /\ UNCHANGED storeVars
                     ELSE \E id \in from, p \in price :
                              setPriceAlert(Num(id), text, p, TRUE)
    /\ lastPass' = NoPass
    /\ UNCHANGED <<priceUpdateCallbacks, monitoredSymbols, updateInterval,
                   activeTimers, ticks, hook, clock>>

-----------------------------------------------------------------------------
(* Specifications                                                          *)

\* A facade call from outside the poller.
Outside(call) ==
    /\ call
    /\ lastPass' = NoPass
    /\ UNCHANGED <<priceUpdateCallbacks, monitoredSymbols, updateInterval,
                   activeTimers, ticks, hook, clock, botVars>>

\* A user's call that writes the alert registry, seen by the ticks in flight.
OutsideAlertWrite(call) ==
    /\ call
    /\ lastPass' = NoPass
    /\ ticks' = [i \in 1..MaxTicks |->
                    IF ticks[i].pc = "idle" THEN ticks[i]
                    ELSE [ticks[i] EXCEPT !.clean = FALSE]]
    /\ UNCHANGED <<priceUpdateCallbacks, monitoredSymbols, updateInterval,
                   activeTimers, hook, clock, botVars>>

Connection ==
    \/ Outside(ServerDown)
    \/ Outside(ServerUp)
    \/ Outside(RedisConnect)
    \/ Outside(RedisError)
    \/ Outside(RedisClose)

\* The alert registry alone.
NextAlerts ==
    \/ Connection
    \/ \E u \in Users, s \in AlertSymbols, p \in Prices, a \in BOOLEAN :
          OutsideAlertWrite(setPriceAlert(Num(u), s, p, a))
    \/ \E u \in Users : Outside(getPriceAlerts(Num(u)))
    \/ \E u \in Users, s \in AlertSymbols, a \in BOOLEAN :
          OutsideAlertWrite(removePriceAlert(Num(u), s, a))

SpecAlerts == Init /\ [][NextAlerts]_vars

\* The generic cache alone.
NextCache ==
    \/ Connection
    \/ \E s \in AlertSymbols, p \in Prices :
          Outside(setCacheWithExpiry(PriceKey(s), Snapshot(p), PRICE_TTL))
    \/ \E s \in AlertSymbols : Outside(getCache(PriceKey(s)))
    \/ \E s \in AlertSymbols : Outside(deleteCache(PriceKey(s)))

SpecCache == Init /\ [][NextCache]_vars

\* Portfolios and webhook URLs alone.
NextUserKV ==
    \/ Connection
    \/ \E u \in KVUsers, p \in Portfolios : Outside(setUserPortfolio(Num(u), p))
    \/ \E u \in KVUsers : Outside(getUserPortfolio(Num(u)))
    \/ \E u \in KVUsers, url \in Urls : Outside(setWebhook(Num(u), url))
    \/ \E u \in KVUsers : Outside(getWebhook(Num(u)))
    \/ \E u \in KVUsers : Outside(removeWebhook(Num(u)))

SpecUserKV == Init /\ [][NextUserKV]_vars

\* The poller and the matcher with users setting and listing alerts, the
\* remote never connected.
NextMatcher ==
    \/ \E u \in MatcherUsers, s \in AlertSymbols, p \in Prices, a \in BOOLEAN :
          OutsideAlertWrite(setPriceAlert(Num(u), s, p, a))
    \/ \E u \in MatcherUsers : Outside(getPriceAlerts(Num(u)))
    \/ \E S \in (SUBSET AlertSymbols) \ {{}} : startPriceMonitoring(S)
    \/ \E s \in AlertSymbols, cb \in Callbacks : onPriceUpdate(s, cb)
    \/ stopMonitoring
    \/ TimerFires
    \/ \E i \in 1..MaxTicks : getPricesResolves(i)
    \/ \E i \in 1..MaxTicks : getPricesRejects(i)
    \/ \E i \in 1..MaxTicks : handlePriceUpdate(i)

SpecMatcher == Init /\ [][NextMatcher]_vars

\* The poller by itself: its timer, its subscriptions and its ticks, with
\* one alert that may be stored.
NextPoller ==
    \/ \E u \in MatcherUsers, s \in AlertSymbols :
          OutsideAlertWrite(setPriceAlert(Num(u), s, 1, TRUE))
    \/ \E S \in (SUBSET AlertSymbols) \ {{}} : startPriceMonitoring(S)
    \/ \E s \in AlertSymbols, cb \in Callbacks : onPriceUpdate(s, cb)
    \/ stopMonitoring
    \/ TimerFires
    \/ \E i \in 1..MaxTicks : getPricesResolves(i)
    \/ \E i \in 1..MaxTicks : getPricesRejects(i)
    \/ \E i \in 1..MaxTicks : handlePriceUpdate(i)

SpecPoller == Init /\ [][NextPoller]_vars

\* A user's setPriceAlert that completes while a matching pass is between
\* its read of the alerts and its delete, and replaces what the pass read.
RaceSet ==
    \E i \in 1..MaxTicks, u \in MatcherUsers, p \in Prices, a \in BOOLEAN :
        /\ ticks[i].pc = "loop"
        /\ \A k \in 1..Len(ticks[i].pending) :
              ticks[i].pending[k] # AlertData(ticks[i].queue[1][1], p, a)
        /\ OutsideAlertWrite(setPriceAlert(Num(u), ticks[i].queue[1][1], p, a))

\* The poller and the matcher scheduled so that whatever interleaving of a
\* user's setPriceAlert with a pass the program allows does occur: the timer
\* keeps firing, every price keeps being observed, every pass runs on, and a
\* user sets alerts both between passes and inside the read-to-delete window
\* whenever there is one.
SpecRace ==
    /\ Init /\ [][NextMatcher]_vars
    /\ SF_vars(\E S \in (SUBSET AlertSymbols) \ {{}} : startPriceMonitoring(S))
    /\ SF_vars(TimerFires)
    /\ \A i \in 1..MaxTicks, p \in ObservedPrices :
          SF_vars(getPricesResolves(i) /\ ticks'[i].queue[1][2] = p)
    /\ \A i \in 1..MaxTicks : WF_vars(handlePriceUpdate(i))
    /\ \A u \in MatcherUsers, s \in AlertSymbols, p \in Prices, a \in BOOLEAN :
          SF_vars(/\ \A i \in 1..MaxTicks : ticks[i].pc = "idle"
                  /\ OutsideAlertWrite(setPriceAlert(Num(u), s, p, a)))
    /\ SF_vars(RaceSet)

\* The matcher polling one symbol while alerts are stored for several: a
\* BELOW alert for the polled symbol, ABOVE alerts for the others.
NextFrame ==
    \/ \E u \in MatcherUsers, s \in Symbols :
          OutsideAlertWrite(setPriceAlert(Num(u), s, 1, s \notin AlertSymbols))
    \/ \E S \in (SUBSET AlertSymbols) \ {{}} : startPriceMonitoring(S)
    \/ \E s \in AlertSymbols, cb \in Callbacks : onPriceUpdate(s, cb)
    \/ TimerFires
    \/ \E i \in 1..MaxTicks : getPricesResolves(i)
    \/ \E i \in 1..MaxTicks : getPricesRejects(i)
    \/ \E i \in 1..MaxTicks : handlePriceUpdate(i)

SpecFrame == Init /\ [][NextFrame]_vars

\* The matcher polling while the remote connects, fails and recovers.
NextHealth ==
    \/ Connection
    \/ \E u \in MatcherUsers, s \in AlertSymbols :
          OutsideAlertWrite(setPriceAlert(Num(u), s, 1, TRUE))
    \/ \E S \in (SUBSET AlertSymbols) \ {{}} : startPriceMonitoring(S)
    \/ TimerFires
    \/ \E i \in 1..MaxTicks : getPricesResolves(i)
    \/ \E i \in 1..MaxTicks : getPricesRejects(i)
    \/ \E i \in 1..MaxTicks : handlePriceUpdate(i)

SpecHealth == Init /\ [][NextHealth]_vars

\* One chat going through the alert flow while the remote comes and goes.
NextChat ==
    \/ Connection
    \/ \E coin \in popularCoins \cup {"other"} : alertCallback(coin)
    \/ \E from \in {{}} \cup {{u} : u \in KVUsers}, text \in Texts :
          messageText(from, text)

SpecChat == Init /\ [][NextChat]_vars

\* Alerts being set and cleared per user.
NextClear ==
    \/ Connection
    \/ \E u \in Users, s \in AlertSymbols, a \in BOOLEAN :
          OutsideAlertWrite(setPriceAlert(Num(u), s, 1, a))
    \/ \E u \in Users : OutsideAlertWrite(clearUserAlerts(Num(u)))

SpecClear == Init /\ [][NextClear]_vars

\* The alert registry of one user, with the generic cache writing strings
\* of its own under the same keys.
NextShared ==
    \/ Connection
    \/ \E u \in KVUsers, s \in Symbols :
          OutsideAlertWrite(setPriceAlert(Num(u), s, 1, TRUE))
    \/ \E u \in KVUsers : Outside(getPriceAlerts(Num(u)))
    \/ \E u \in KVUsers, s \in Symbols :
          Outside(setCacheWithExpiry(getKey("alert", Num(u), s), Malformed, PRICE_TTL))

SpecShared == Init /\ [][NextShared]_vars

\* The generic cache with time passing.
NextTTL ==
    \/ Connection
    \/ \E p \in Prices :
          Outside(setCacheWithExpiry(PriceKey("DOT"), Snapshot(p), CacheTTL))
    \/ Outside(getCache(PriceKey("DOT")))
    \/ Outside(deleteCache(PriceKey("DOT")))
    \/ TimePasses

SpecTTL == Init /\ [][NextTTL]_vars

\* The same with the client's connection handling not postponed forever: a
\* connect, close or error event that stays possible happens.
SpecRecovery ==
    /\ Init
    /\ [][NextUserKV]_vars
    /\ WF_vars(Outside(RedisConnect))
    /\ WF_vars(Outside(RedisClose))
    /\ WF_vars(Outside(RedisError))

\* The webhook dispatcher with users registering and removing URLs.
NextWebhook ==
    \/ Connection
    \/ \E u \in KVUsers, url \in Urls : Outside(setWebhook(Num(u), url))
    \/ \E u \in KVUsers : Outside(removeWebhook(Num(u)))
    \/ \E u \in KVUsers : sendNotification(Num(u))
    \/ \E outcome \in PostOutcomes : axiosPost(outcome)
    \/ retryDelayElapses

SpecWebhook == Init /\ [][NextWebhook]_vars

\* The same with the runtime's guarantees: an axios.post with a timeout
\* settles and a setTimeout elapses.
SpecDelivery ==
    /\ Init
    /\ [][NextWebhook]_vars
    /\ WF_vars(\E outcome \in PostOutcomes : axiosPost(outcome))
    /\ WF_vars(retryDelayElapses)

-----------------------------------------------------------------------------
(* Properties of the cache facade                                          *)

WriteOps == {"setCacheWithExpiry", "setPriceAlert", "setUserPortfolio", "setWebhook"}
ReadOps == {"getCache", "getPriceAlerts", "getUserPortfolio", "getWebhook"}

\* The listing of user u's alerts that a key/value map m (a set of
\* <<key, value>>) gives: the entries under the keys alert:{u}:{s}.
AlertsIn(m, userId) ==
    {<<<<s>>, q[2]>> : <<s, q>> \in
        {<<s, q>> \in AlertSymbols \X m : q[1] = getKey("alert", userId, s)}}

\* The fallback store as a key/value map.
MemMap == {inMemoryStorage[i] : i \in 1..Len(inMemoryStorage)}

\* What a read of the last call's key gives on the map m.
ReadOn(m, call) ==
    LET got == {q[2] : q \in {e \in m : e[1] = call.key}}
    IN  CASE call.op = "getPriceAlerts" -> {AlertsIn(m, call.args[1])}
          [] call.op = "getUserPortfolio" -> OrElse(got, {EmptyPortfolio})
          [] OTHER -> got

\* C1: while the availability flag has been false for the whole sequence of
\* facade calls, every read returns what one plain key/value map fed the same
\* calls returns: the last value written to the key and not deleted since,
\* otherwise absent.
C1_FallbackTransparency ==
    (fallbackOnly /\ last.op \in ReadOps) =>
        (~last.threw /\ last.val = ReadOn(ref, last))

\* C2: in every reachable state, whatever the flag says, an alert, portfolio
\* or webhook URL written under a userId and not deleted since is what the
\* getter for that userId returns.
C2_BackendInvisible ==
    \A n \in Users :
        LET u == Num(n)
        IN  /\ \A v \in RefGet(getKey("portfolio", u, "")) : getUserPortfolioResult(u) = {v}
            /\ \A v \in RefGet(getKey("webhook", u, "")) : getWebhookResult(u) = {v}
            /\ AlertsIn(ref, u) \subseteq getPriceAlertsResult(u)

\* C3: a facade write issued while the flag is true whose remote write is
\* rejected has stored its value in the fallback store when it completes.
C3_WriteNeverLost ==
    (last.op \in WriteOps /\ last.remoteFailed) =>
        \A v \in last.written : MemGet(last.key) = {v}

\* C4: a facade read issued while the flag is true whose remote read is
\* rejected returns what the fallback store holds for the key.
C4_ReadFallsBack ==
    (last.op \in ReadOps /\ last.remoteFailed) =>
        (~last.threw /\ last.val = ReadOn(MemMap, last))

\* C5: no facade call leaves by exception, whatever the remote does.
C5_NeverThrows == ~last.threw

\* C6: while every remote command is rejected, a set immediately followed
\* by the get of the same user returns the value set (portfolio, webhook
\* URL, alert), with the flag true or false.
C6_SetThenGet ==
    (noRemoteSuccess /\ RedisThrows) =>
        /\ last.op = "setUserPortfolio" => getUserPortfolioResult(last.args[1]) = last.written
        /\ last.op = "setWebhook" => getWebhookResult(last.args[1]) = last.written
        /\ last.op = "setPriceAlert" =>
              \A v \in last.written :
                  <<<<last.args[2]>>, v>> \in getPriceAlertsResult(last.args[1])

-----------------------------------------------------------------------------
(* Properties of the matcher                                               *)

\* The trigger condition as specified, on a stored alert {symbol, price, isAbove}.
ShouldFire(data, price) ==
    \/ data.isAbove /\ price >= data.price
    \/ ~data.isAbove /\ price <= data.price

Range(seq) == {seq[k] : k \in 1..Len(seq)}

\* C7: a price update fires a stored alert of its symbol if and only if
\* (ABOVE and price >= target) or (BELOW and price <= target): at the end
\* of every handlePriceUpdate run that no user call disturbed, the alerts
\* matched are exactly the stored ones whose condition the price meets.
C7_InclusiveBoundary ==
    lastPass.clean =>
        \A q \in lastPass.startAlerts :
            (q[2] \in lastPass.fired) <=> ShouldFire(q[2], lastPass.price)

\* C8 (Scenario A): a run whose price meets no stored alert of the symbol
\* invokes no callback and leaves them stored; a run whose price is >= the
\* target of a stored ABOVE alert has invoked every callback subscribed for
\* the symbol with (symbol, price) and removed the alert, so that the
\* owner's getAlerts no longer lists the symbol.
C8_ScenarioA ==
    lastPass.clean =>
        /\ (\A q \in lastPass.startAlerts : ~ShouldFire(q[2], lastPass.price)) =>
              (lastPass.calls = <<>> /\ lastPass.startAlerts \subseteq ref)
        /\ \A q \in lastPass.startAlerts :
              (q[2].isAbove /\ lastPass.price >= q[2].price) =>
                  /\ \A cb \in Range(priceUpdateCallbacks[lastPass.symbol]) :
                        <<cb, lastPass.symbol, lastPass.price>> \in Range(lastPass.calls)
                  /\ q \notin ref
                  /\ \A u \in Users :
                        q[1] = getKey("alert", Num(u), lastPass.symbol) =>
                            \A e \in getPriceAlertsResult(Num(u)) :
                                e[1] # <<lastPass.symbol>>

-----------------------------------------------------------------------------
(* Properties of the webhook dispatcher                                    *)

Delivered == hook.pc = "done" /\ hook.url # {}

\* C10: when the URL lookup gives a URL and every attempt fails (non-2xx,
\* network error or timeout), sendNotification has made exactly 3 HTTP
\* attempts when it returns, and returns false.
C10_RetryBound ==
    (Delivered /\ "2xx" \notin Range(hook.outcomes)) =>
        (Len(hook.outcomes) = 3 /\ hook.result = {FALSE})

C10_Witness ==
    /\ Delivered
    /\ hook.outcomes = <<"non2xx", "network error", "timeout">>
    /\ hook.result = {FALSE}

\* C11: the first attempt that gets a 2xx response ends the delivery with
\* result true and no attempt follows it; a 2xx on attempt 1 is the only
\* attempt.
C11_SuccessShortCircuit ==
    \A k \in 1..Len(hook.outcomes) :
        hook.outcomes[k] = "2xx" =>
            /\ k = Len(hook.outcomes)
            /\ hook.pc = "done"
            /\ hook.result = {TRUE}

C11_Witness ==
    hook.pc = "done" /\ hook.outcomes = <<"2xx">> /\ hook.result = {TRUE}

\* C12: whatever the outcomes of the attempts, a sendNotification that has
\* returned made at most 3 attempts and returned a boolean (no exception
\* left it, a failed remote lookup included): true if and only if one of
\* the attempts got a 2xx response.
C12_TrueIffDelivered ==
    hook.pc = "done" =>
        /\ Len(hook.outcomes) <= 3
        /\ hook.result = {"2xx" \in Range(hook.outcomes)}

C12_Witness ==
    hook.pc = "done" /\ hook.outcomes = <<"timeout", "2xx">> /\ hook.result = {TRUE}

\* C13: when the lookup finds no webhook URL (none is stored for the user in
\* either backend, or the lookup gave null), sendNotification returns false
\* without any HTTP call.
C13_NoUrlNoCall ==
    /\ (hook.pc = "done" /\ hook.url = {}) =>
           (hook.result = {FALSE} /\ hook.outcomes = <<>>)
    /\ (/\ hook.pc # "idle"
        /\ last.op = "getWebhook"
        /\ MemGet(last.key) = {}
        /\ RedisGet(last.key) = {}) =>
           (hook.pc = "done" /\ hook.url = {} /\ hook.result = {FALSE})

C13_Witness ==
    /\ hook.pc = "done"
    /\ last.op = "getWebhook"
    /\ hook.url = {}
    /\ hook.result = {FALSE}
    /\ hook.outcomes = <<>>

-----------------------------------------------------------------------------
(* Properties of the cache over time                                       *)

\* C14: a getCache(key) that follows a setCacheWithExpiry(key, v, ttl)
\* returns v while less than ttl seconds have passed since the write and
\* null, without an error, once more than ttl seconds have passed,
\* whichever backend took the write; stated here for the runs in which the
\* fallback store serves every call.
C14_CacheTTL ==
    (fallbackOnly /\ last.op = "getCache") =>
        \A e \in refExpiry :
            e[1] = last.key =>
                /\ ~last.threw
                /\ clock < e[2] => last.val = RefGet(last.key)
                /\ clock > e[2] => last.val = {}

-----------------------------------------------------------------------------
(* Properties of deletion, availability and the alert registry             *)

DeleteOps == {"deleteCache", "removePriceAlert", "removeWebhook"}

\* C15: when deleteCache, removePriceAlert or removeWebhook has completed,
\* its key is in neither the remote key space nor the fallback store.
C15_DeleteBoth ==
    (last.op \in DeleteOps /\ ~last.threw) =>
        (RedisGet(last.key) = {} /\ MemGet(last.key) = {})

\* C16: if the remote backend, after having been marked unavailable, is
\* reachable again and stays so, the availability flag becomes true again
\* (and calls go to the remote from then on); the facade does not stay on
\* the fallback store forever.
C16_Recovery == <>[]serverUp => <>[]isRedisAvailable

\* C17: when a facade operation has failed against the remote backend (its
\* catch path ran), the availability flag is false afterwards.
C17_CatchMarksUnavailable ==
    (last.remoteFailed /\ ~last.threw) => ~isRedisAvailable

\* The users whose id, as a string, begins no other user's id.
NoPrefixUsers ==
    {u \in Users : \A w \in Users \ {u} : ~StartsWith(ToStr(Num(w)), ToStr(Num(u)))}

\* C18: whatever setAlert calls and availability changes came before,
\* getAlerts(u) holds at most one alert for a symbol, and when u has an
\* alert set for the symbol it is the one of the most recent setAlert;
\* stated for the users whose listing cannot hold another user's keys.
C18_OneAlertMostRecent ==
    \A u \in NoPrefixUsers :
        \A e \in getPriceAlertsResult(Num(u)) :
            /\ \A f \in getPriceAlertsResult(Num(u)) : f[1] = e[1] => f = e
            /\ \A s \in AlertSymbols :
                  (e[1] = <<s>> /\ RefGet(getKey("alert", Num(u), s)) # {}) =>
                      e[2] \in RefGet(getKey("alert", Num(u), s))

\* What either backend holds under the alert key of user u and field f.
OwnAlerts(u, f) ==
    LET key == <<"alert", ":">> \o ToStr(u) \o <<":">> \o f
    IN  MemGet(key) \cup {JSONparse(v) : v \in RedisGet(key)}

\* C19: every alert getAlerts(u) returns is stored under a key
\* alert:{u}:..., never under the key of another user, whichever backend
\* serves the listing.
C19_OnlyOwnAlerts ==
    \A u \in Users :
        \A e \in getPriceAlertsResult(Num(u)) : e[2] \in OwnAlerts(Num(u), e[1])

\* C20: on a price update for symbol s, the alerts the matcher gets from its
\* lookup, and so evaluates, are exactly the stored alerts of all users
\* whose symbol is s.
C20_CrossUserLookup ==
    (last.op = "getPriceAlerts" /\ last.args[1][1] = "string") =>
        \A listing \in last.val :
            {e[2] : e \in listing} = {q[2] : q \in StoredFor(last.args[1][2])}

\* C21: a removeAlert(u, s, direction) whose direction differs from that of
\* the alert stored for (u, s) changes neither store.
C21_WrongDirectionNoOp ==
    [][(/\ last'.op = "removePriceAlert"
        /\ ~last'.threw
        /\ \E d \in RefGet(last'.key) : d.isAbove # last'.args[3])
       => (inMemoryStorage' = inMemoryStorage /\ redisStore' = redisStore)]_vars

\* C22: when clearAllAlerts(u) has returned, it has not raised and the
\* fallback store holds no key alert:{u}:..., also when the remote
\* enumeration or delete was rejected.
C22_ClearFallback ==
    (last.op = "clearUserAlerts") =>
        /\ ~last.threw
        /\ \A i \in 1..Len(inMemoryStorage) :
              ~StartsWith(inMemoryStorage[i][1],
                          MemAlertPrefix(last.args[1]) \o <<":">>)

C22_Witness ==
    /\ last.op = "clearUserAlerts"
    /\ last.remoteFailed
    /\ \E q \in redisStore : GlobMatch(last.key, q[1])
    /\ inMemoryStorage # <<>>

-----------------------------------------------------------------------------
(* Properties of the poller                                                *)

\* C23: whatever startMonitoring, onPriceUpdate and stopMonitoring calls
\* were made, at most one poll timer is active, and it is the one the
\* service holds: a start while a timer runs has cancelled that timer.
C23_SingleTimer ==
    /\ Cardinality(activeTimers) <= 1
    /\ activeTimers = IF updateInterval = 0 THEN {} ELSE {updateInterval}

C23_Witness ==
    /\ activeTimers = {updateInterval}
    /\ Len(priceUpdateCallbacks["DOT"]) = 2
    /\ ticks[1].pc = "fetch"

\* C24: a poll tick whose batched price fetch fails ends there: it invokes
\* no callback and touches no store, the timer, the monitored set and the
\* subscriptions are as before, and a tick slot is free for the next firing
\* of the timer.
C24_FailedFetchSkipped ==
    [][(lastPass' = FetchFailed) =>
           /\ activeTimers' = activeTimers
           /\ updateInterval' = updateInterval
           /\ monitoredSymbols' = monitoredSymbols
           /\ priceUpdateCallbacks' = priceUpdateCallbacks
           /\ \A i \in 1..MaxTicks : ticks'[i].calls = <<>>
           /\ \E i \in 1..MaxTicks : ticks'[i].pc = "idle"
           /\ UNCHANGED storeVars]_vars

C24_Witness ==
    /\ lastPass = FetchFailed
    /\ activeTimers # {}
    /\ monitoredSymbols = {"DOT"}
    /\ priceUpdateCallbacks["DOT"] # <<>>
    /\ StoredFor("DOT") # {}

\* C25: stopMonitoring is a full reset. The step that stops a running
\* monitor leaves no live timer, an empty monitored set and no callback;
\* and while the service holds no timer handle (until the next
\* startMonitoring) no timer is live and no new poll tick starts.
C25_StopResets ==
    [][/\ (updateInterval # 0 /\ updateInterval' = 0) =>
              /\ activeTimers' = {}
              /\ monitoredSymbols' = {}
              /\ \A s \in Symbols : priceUpdateCallbacks'[s] = <<>>
       /\ (updateInterval = 0) =>
              /\ activeTimers = {}
              /\ \A i \in 1..MaxTicks : ticks[i].pc = "idle" => ticks'[i].pc = "idle"]_vars

C25_Witness ==
    /\ updateInterval = 0
    /\ activeTimers = {}
    /\ monitoredSymbols = {}
    /\ \A s \in Symbols : priceUpdateCallbacks[s] = <<>>
    /\ ticks[1].pc = "cache"

\* C26: every delivery terminates: a sendNotification that is waiting for
\* an attempt or for a retry delay eventually returns (true or false), and
\* it never makes more than 3 attempts, whatever the outcomes are.
C26_DeliveryTerminates ==
    /\ [](Len(hook.outcomes) <= 3)
    /\ (hook.pc \in {"post", "delay"}) ~> (hook.pc = "done" /\ hook.result # {})

C26_Witness ==
    /\ hook.pc = "done"
    /\ hook.outcomes = <<"timeout", "timeout", "timeout">>
    /\ hook.result = {FALSE}

\* C27: the delay after failed attempt n (n = 1, 2) is exactly 1000 ms x n;
\* nothing is waited before attempt 1 or after a failed attempt 3: every
\* failed attempt but the third is followed by its delay, and a finished
\* delivery has waited one delay less than it made attempts.
C27_LinearBackoff ==
    /\ Len(hook.delays) <= 2
    /\ \A n \in 1..Len(hook.delays) : hook.delays[n] = 1000 * n
    /\ hook.pc \in {"post", "delay"} => Len(hook.delays) = Len(hook.outcomes)
    /\ Delivered => Len(hook.delays) = Len(hook.outcomes) - 1

C27_Witness ==
    /\ Delivered
    /\ Len(hook.outcomes) = 3
    /\ hook.delays = <<1000, 2000>>
    /\ hook.result = {FALSE}

\* C28: when the remote serves getAlerts(u), an entry that does not
\* deserialize is skipped and every other alert stored for u in the remote
\* is in the listing.
C28_MalformedSkipped ==
    \A u \in KVUsers :
        (isRedisAvailable /\ ~RedisThrows) =>
            \A q \in redisStore :
                (GlobMatch(getKey("alert", Num(u), "*"), q[1]) /\ CanParse(q[2])) =>
                    <<SplitField2(q[1]), JSONparse(q[2])>> \in getPriceAlertsResult(Num(u))

\* C29: when a matching pass that no user call disturbed has ended, every
\* stored alert of the symbol whose condition the price met has been matched
\* by the pass (its callbacks invoked) and is deleted from the registry.
C29_MatchedThenDeleted ==
    lastPass.clean =>
        \A q \in lastPass.startAlerts :
            ShouldFire(q[2], lastPass.price) =>
                (q[2] \in lastPass.fired /\ RefGet(q[1]) = {})

-----------------------------------------------------------------------------
(* Properties of the matcher under concurrent user actions                 *)

\* A matching pass stands at its delete, after its read, holding a matched
\* alert whose key now stores an alert the pass never read: a setPriceAlert
\* completed in between, and the delete that comes next removes that alert.
RaceWindow ==
    \E i \in 1..MaxTicks :
        /\ ticks[i].pc = "loop"
        /\ LET t == ticks[i]
               rest == SkipUnmet(t.pending, t.queue[1][2])
               typedAlert == TypedAlert(Head(rest))
               userId == IF typedAlert.userId = {} THEN Str("undefined")
                         ELSE CHOOSE u \in typedAlert.userId : TRUE
           IN  /\ rest # <<>>
               /\ \E v \in RefGet(getKey("alert", userId, t.queue[1][1])) :
                      v \notin (Range(t.pending) \cup t.fired)

\* C31: the alert identity race is reachable. When users keep setting
\* alerts, between passes and between a pass's read of the alerts and its
\* delete, and every price keeps being observed, then at some point a pass
\* is about to delete an alert that was set after the pass's read and was
\* never evaluated against a price.
C31_RaceReachable == <>RaceWindow

\* The step is one of tick i's handlePriceUpdate run.
MatcherStep(i) ==
    /\ ticks[i].pc \in {"cache", "alerts", "loop"}
    /\ \/ ticks'[i].pc # ticks[i].pc
       \/ ticks'[i].queue # ticks[i].queue
       \/ ticks'[i].pending # ticks[i].pending

\* The alerts the two stores hold, as <<key, alert data>>.
AllAlerts ==
    {<<q[1], JSONparse(q[2])>> : q \in {r \in redisStore : r[1][1] = "alert"}}
        \cup {e \in Range(inMemoryStorage) : e[1][1] = "alert"}

\* C32: a step of a price update for s, when the price meets the condition
\* of no stored alert of s, invokes no callback and leaves every stored alert
\* as it was; and whatever the price, a step of a price update for s matches
\* no alert of another symbol and leaves the alerts of every other symbol as
\* they were.
C32_UnmetAndOtherSymbolsKept ==
    [][\A i \in 1..MaxTicks :
          \A symbol \in Symbols :
          (MatcherStep(i) /\ symbol = ticks[i].queue[1][1]) =>
              LET price == ticks[i].queue[1][2]
                  ended == lastPass' # NoPass
                  callsAfter == IF ended THEN lastPass'.calls ELSE ticks'[i].calls
                  firedAfter == IF ended THEN lastPass'.fired ELSE ticks'[i].fired
              IN  /\ (\A q \in StoredFor(symbol) : ~ShouldFire(q[2], price)) =>
                        /\ callsAfter = <<>>
                        /\ AllAlerts' = AllAlerts
                        /\ StoredFor(symbol)' = StoredFor(symbol)
                  /\ \A q \in AllAlerts : q[2].symbol # symbol => q \in AllAlerts'
                  /\ \A s \in Symbols \ {symbol} : StoredFor(s)' = StoredFor(s)
                  /\ \A d \in firedAfter : d.symbol = symbol]_vars

C32_Witness ==
    /\ lastPass.clean
    /\ lastPass.symbol = "DOT"
    /\ lastPass.startAlerts # {}
    /\ \A q \in lastPass.startAlerts : ~ShouldFire(q[2], lastPass.price)
    /\ lastPass.calls = <<>>
    /\ lastPass.startAlerts \subseteq ref
    /\ priceUpdateCallbacks["DOT"] # <<>>
    /\ \E q \in StoredFor("BTC") : ShouldFire(q[2], lastPass.price)

-----------------------------------------------------------------------------
(* Properties of clearUserAlerts on other users                            *)

\* The entries a store holds under the keys alert:{u}:...
RemoteAlertsOf(u) ==
    {q \in redisStore : StartsWith(q[1], MemAlertPrefix(u) \o <<":">>)}

FallbackAlertsOf(u) ==
    SelectSeq(inMemoryStorage,
              LAMBDA e : StartsWith(e[1], MemAlertPrefix(u) \o <<":">>))

\* C33: a clearAllAlerts(u) step leaves the alerts of every other user as
\* they were, in the remote backend and in the fallback store, also when
\* u's id is a prefix of the other user's id (1 and 12).
C33_ClearLeavesOthers ==
    [][(last'.op = "clearUserAlerts") =>
           \A w \in Users :
               Num(w) # last'.args[1] =>
                   /\ RemoteAlertsOf(Num(w))' = RemoteAlertsOf(Num(w))
                   /\ FallbackAlertsOf(Num(w))' = FallbackAlertsOf(Num(w))]_vars

-----------------------------------------------------------------------------
(* Properties of the matcher under a failing cache                         *)

\* C34: alert evaluation does not depend on cache health. When the snapshot
\* write that opens a price update is rejected (remote marked available but
\* erroring), the same run goes on, on that tick and for that symbol and
\* price, to read and evaluate the stored alerts.
C34_EvaluatesDespiteCacheFailure ==
    [][\A i \in 1..MaxTicks :
          (/\ ticks[i].pc = "cache"
           /\ MatcherStep(i)
           /\ last'.op = "setCacheWithExpiry"
           /\ last'.threw) =>
              /\ ticks'[i].pc = "alerts"
              /\ ticks'[i].queue = ticks[i].queue]_vars

-----------------------------------------------------------------------------
(* Properties of the matcher's deletes                                     *)

\* C35: the matcher never deletes an alert silently. A step of a price
\* update that invokes no subscribed callback leaves every alert in the
\* stores and in the registry, also when no callback is subscribed for the
\* symbol and when stopMonitoring cleared the callbacks while the tick was
\* in flight.
C35_NoSilentDelete ==
    [][\A i \in 1..MaxTicks :
          LET callsAfter == IF lastPass' # NoPass THEN lastPass'.calls
                            ELSE ticks'[i].calls
          IN  (MatcherStep(i) /\ Len(callsAfter) <= Len(ticks[i].calls)) =>
                  /\ \A q \in AllAlerts : q \in AllAlerts'
                  /\ \A q \in ref : q[1][1] = "alert" => q \in ref']_vars

C35_Witness ==
    /\ lastPass.symbol = "DOT"
    /\ \E q \in lastPass.startAlerts : ShouldFire(q[2], lastPass.price)
    /\ updateInterval = 0
    /\ monitoredSymbols = {}
    /\ priceUpdateCallbacks["DOT"] = <<>>
    /\ lastPass.calls = <<>>
    /\ lastPass.startAlerts \subseteq ref
    /\ \A q \in lastPass.startAlerts : q \in AllAlerts

-----------------------------------------------------------------------------
(* Properties of the subscriptions                                         *)

\* C36: in every reachable state of the poller, every symbol that has at
\* least one registered callback is in the monitored symbol set.
C36_SubscribedIsMonitored ==
    \A s \in Symbols :
        priceUpdateCallbacks[s] # <<>> => s \in monitoredSymbols

C36_Witness ==
    /\ Len(priceUpdateCallbacks["DOT"]) = MaxCallbacks
    /\ "DOT" \in monitoredSymbols
    /\ updateInterval = 0
    /\ activeTimers = {}

-----------------------------------------------------------------------------
(* Properties of the chat alert flow                                       *)

\* C37: when the chat alert flow (a coin selected or typed, then a valid
\* numeric price sent) has stored an alert, the alert's symbol is the coin
\* the user chose, its price is the number sent, and the session's
\* awaitingInput is cleared.
C37_ChatAlertStored ==
    (last.op = "setPriceAlert" /\ chat.priceText # {}) =>
        /\ \A d \in last.written :
              /\ {d.symbol} = chat.coin
              /\ \A text \in chat.priceText : {d.price} = parseFloat(text)
        /\ session.awaitingInput = {}

====
